---- MODULE Spec2Model ----
(***************************************************************************)
(* Model of the chat router of serge (api/src/serge/routers/chat.py) and   *)
(* of its auth router (api/src/serge/routers/auth.py).                     *)
(*                                                                         *)
(* State: the relational ChatRef rows (serge.crud), the redis keys         *)
(* chat:<id> (session blob), the redis set "chats", the per-chat message   *)
(* list of RedisChatMessageHistory, the handler the event loop is          *)
(* running, and the streaming generators that EventSourceResponse is       *)
(* still iterating.                                                        *)
(*                                                                         *)
(* Every route is an `async def` that never awaits, so the event loop      *)
(* runs one handler at a time, from its first line to its return.  The     *)
(* generator returned by stream_ask_a_question is a plain generator: the   *)
(* response iterates it on a worker thread, so a resumption of a           *)
(* generator runs between any two blocking calls of the handler the loop   *)
(* is in (a store call, the Llama constructor, the inference).  One        *)
(* action per stretch of a handler between two such calls, one action      *)
(* per resumption of a generator.                                          *)
(***************************************************************************)
EXTENDS Integers, Sequences, FiniteSets, TLC

\* ---------------------------------------------------------------- bounds
MaxHist == 2           \* a question is sent only to a transcript shorter than this
MaxAsks == 1           \* questions sent to the chats that take them

\* ---------------------------------------------------------------- inputs
Users        == {"system", "alice"}
NewChatIds   == <<"c1">>              \* the ids Chat() generates, in order; never reused
ChatIds      == {"c1", "zz"}          \* chat ids a request may name; no chat has id "zz"
Models       == {"7B", "13B"}
Weights      == {"7B"}                \* models with a file under /usr/src/app/weights
InitPrompts  == {"X"}
Prompts      == {"", "hi"}
ErrorTexts   == {"", "boom"}          \* str(e) of an exception the engine raises
FragmentSeqs == {<<>>, <<"a", "b">>}
Gens         == {1}                   \* generators iterated at the same time
IdxRange     == (0 - 1) .. (MaxHist + 1)

\* What the engine does in one request: the outcome of the Llama(...)
\* constructor, the fragments it streams, and how the stream ends.
EngineRuns ==
    [ctor : {"ok"}, frags : FragmentSeqs, end : {"exhausted"}, text : {""}]
    \cup [ctor : {"ok"}, frags : {<<"a", "b">>}, end : {"UnicodeDecodeError"}, text : {"boom"}]
    \cup [ctor : {"ok"}, frags : {<<"a", "b">>}, end : {"Exception"}, text : ErrorTexts]
    \cup [ctor : {"ValueError", "Exception"}, frags : {<<>>}, end : {"exhausted"}, text : {"boom"}]

\* ---------------------------------------------------------------- state
VARIABLES
    chatRefs,   \* chatRefs[u]: chat ids of the ChatRef rows of user u (u.chats), in order
    blob,       \* blob[c]: value of redis key chat:<c>, NoBlob when the key is absent
    chats,      \* members of the redis set "chats"
    history,    \* history[c]: messages of RedisChatMessageHistory(c), oldest first
    allocated,  \* number of Chat ids generated so far
    gens,       \* gens[g]: a generator of stream_ask_a_question being iterated
    resp,       \* the handler that answered last and the status it answered with
    proc,       \* the handler the event loop is in, its arguments and its locals
    authdb,     \* authdb[name]: the credentials (user.auth) of the users get_user finds
    ident,      \* the last call of the auth router: its arguments and its outcome
    listing,    \* the last listing of get_all_chats: the chats read and the summaries
    asked       \* number of questions that passed the checks of their handler

vars == <<chatRefs, blob, chats, history, allocated, gens, resp, proc,
          authdb, ident, listing, asked>>
aux == <<authdb, ident, listing, asked>>
store == <<chatRefs, blob, chats, history>>

NoBlob == [id |-> "", owner |-> "", created |-> 0, model_path |-> "", init_prompt |-> ""]

SystemMessage(t) == [type |-> "system", content |-> t]
HumanMessage(t)  == [type |-> "human", content |-> t]
AIMessage(t)     == [type |-> "ai", content |-> t]

NoRun == CHOOSE r \in EngineRuns : TRUE

IdleGen == [pc |-> "idle", chat |-> "", run |-> NoRun,
            pos |-> 0, full_answer |-> "", error |-> <<>>, events |-> <<>>]

\* The event loop between two requests.
IdleProc == [op |-> "idle", pc |-> "", user |-> "", chat |-> "", init_prompt |-> "",
             idx |-> 0, prompt |-> "", run |-> NoRun, messages |-> <<>>, left |-> <<>>]

\* The users of a fresh installation: the passwordless default user "system",
\* and "alice" with one password.
Hash(p) == "h(" \o p \o ")"
Credential(t, secret) == [auth_type |-> t, secret |-> secret]
DefaultAuthDb == [u \in Users |-> IF u = "system" THEN <<Credential(0, "")>>
                                  ELSE <<Credential(1, Hash("pw"))>>]

NoToken == [kind |-> "absent", sub |-> ""]
Returned(v) == [exc |-> "", value |-> v]
Raised(e)   == [exc |-> e, value |-> ""]
NoIdent == [fn |-> "none", username |-> "", password |-> "", token |-> NoToken,
            user |-> "", outcome |-> Returned("")]
NoListing == [chats |-> <<>>, called |-> FALSE, result |-> <<>>]

Response(op, st) == [op |-> op, status |-> st]

Min(a, b) == IF a < b THEN a ELSE b
Max(a, b) == IF a > b THEN a ELSE b

\* ------------------------------------------------------- helper operators
\* [x.chat_id for x in u.chats]
ChatIdsOf(u) == {chatRefs[u][i] : i \in DOMAIN chatRefs[u]}

\* `chat_id not in [x.chat_id for x in u.chats]`
Authorized(u, c) == c \in ChatIdsOf(u)

\* serge.crud: create_chat records the ChatRef of chat c owned by u at the end
\* of u.chats (update_user saves the same list), remove_chat removes it.
create_chat(refs, u, c) == [refs EXCEPT ![u] = Append(@, c)]
remove_chat(refs, u, c) == [refs EXCEPT ![u] = SelectSeq(@, LAMBDA x : x # c)]

\* messages[:idx] of Python, idx of either sign.
SlicePrefix(s, idx) ==
    IF idx >= 0 THEN SubSeq(s, 1, Min(idx, Len(s)))
    ELSE SubSeq(s, 1, Max(0, Len(s) + idx))

\* `if error:` a str that is None or empty is falsy.
Truthy(error) == error # <<>> /\ error[1] # ""

\* _try_get_chat: the outcome of the membership test and of parsing the blob.
TryGetChat(c) ==
    IF c \notin chats THEN "ChatDoesNotExist"
    ELSE IF blob[c] = NoBlob THEN "ValidationError"
    ELSE "ok"

chatVars == <<chatRefs, blob, chats, history, allocated, gens, resp, proc, asked>>

\* No chat yet, no request yet, no generator yet.
ChatInit ==
    /\ chatRefs = [u \in Users |-> <<>>]
    /\ blob = [c \in ChatIds |-> NoBlob]
    /\ chats = {}
    /\ history = [c \in ChatIds |-> <<>>]
    /\ allocated = 0
    /\ gens = <<>>
    /\ resp = Response("none", "ok")
    /\ proc = IdleProc
    /\ asked = 0

Init ==
    /\ ChatInit
    /\ authdb = DefaultAuthDb
    /\ ident = NoIdent
    /\ listing = NoListing

\* ---------------------------------------------------------------- handlers
\* Each handler is the status it answers with, a function of the state and of
\* the request, and its actions: the first runs the handler up to its first
\* blocking call after the checks (or to the answer, when a check fails), the
\* others run it from one blocking call to the next, the last one answers.

\* The statuses of a request refused before it writes anything.
Rejections == {"Unauthorized", "ChatDoesNotExist", "ValidationError"}

\* The id of the next Chat().
NextId == NewChatIds[Min(allocated + 1, Len(NewChatIds))]

\* create_new_chat up to and including client.set(f"chat:{chat.id}", ...);
\* c is the id Chat() generates.
create_new_chat_begin(u, model, init_prompt, c) ==
    /\ proc = IdleProc
    /\ IF model \notin Weights
       THEN /\ resp' = Response("create_new_chat", "ModelNotFound")
            /\ UNCHANGED <<blob, allocated, proc>>
       ELSE /\ allocated' = allocated + 1
            /\ blob' = [blob EXCEPT ![c] = [id |-> c, owner |-> u, created |-> allocated + 1,
                                             model_path |-> model, init_prompt |-> init_prompt]]
            /\ proc' = [IdleProc EXCEPT !.op = "create_new_chat", !.pc = "create_chat",
                                        !.user = u, !.chat = c, !.init_prompt = init_prompt]
            /\ UNCHANGED resp
    /\ UNCHANGED <<chatRefs, chats, history, gens, aux>>

\* The next write of create_new_chat: the ChatRef row, the system message, the
\* membership in "chats"; after the last one the handler returns.
create_new_chat_step ==
    /\ proc.op = "create_new_chat"
    /\ CASE proc.pc = "create_chat" ->
              /\ chatRefs' = create_chat(chatRefs, proc.user, proc.chat)
              /\ proc' = [proc EXCEPT !.pc = "append"]
              /\ UNCHANGED <<history, chats, resp>>
         [] proc.pc = "append" ->
              /\ history' = [history EXCEPT ![proc.chat] =
                                Append(@, SystemMessage(proc.init_prompt))]
              /\ proc' = [proc EXCEPT !.pc = "sadd"]
              /\ UNCHANGED <<chatRefs, chats, resp>>
         [] OTHER ->
              /\ chats' = chats \cup {proc.chat}
              /\ proc' = IdleProc
              /\ resp' = Response("create_new_chat", "ok")
              /\ UNCHANGED <<chatRefs, history>>
    /\ UNCHANGED <<blob, allocated, gens, aux>>

get_specific_chat_status(u, c) ==
    IF ~Authorized(u, c) THEN "Unauthorized" ELSE TryGetChat(c)

get_specific_chat(u, c) ==
    /\ proc = IdleProc
    /\ resp' = Response("get_specific_chat", get_specific_chat_status(u, c))
    /\ UNCHANGED <<store, allocated, gens, proc, aux>>

\* get_specific_chat over u.chats, in order: the first chat that cannot be
\* read fails the listing.
get_all_chats_status(u) ==
    LET bad == {i \in DOMAIN chatRefs[u] : get_specific_chat_status(u, chatRefs[u][i]) # "ok"}
    IN  IF bad = {} THEN "ok"
        ELSE get_specific_chat_status(u, chatRefs[u][CHOOSE i \in bad : \A j \in bad : i <= j])

get_all_chats(u) ==
    /\ proc = IdleProc
    /\ resp' = Response("get_all_chats", get_all_chats_status(u))
    /\ UNCHANGED <<store, allocated, gens, proc, aux>>

get_chat_history_status(u, c) == IF ~Authorized(u, c) THEN "Unauthorized" ELSE "ok"

\* readAll: what get_chat_history returns when it succeeds.
ReadAll(c) == history[c]

get_chat_history(u, c) ==
    /\ proc = IdleProc
    /\ resp' = Response("get_chat_history", get_chat_history_status(u, c))
    /\ UNCHANGED <<store, allocated, gens, proc, aux>>

delete_prompt_status(u, c, idx) ==
    IF ~Authorized(u, c) THEN "Unauthorized"
    ELSE IF idx >= Len(history[c]) THEN "Conflict"
    ELSE "ok"

\* delete_prompt up to and including `if idx >= len(history.messages)`.
delete_prompt_begin(u, c, idx) ==
    /\ proc = IdleProc
    /\ IF delete_prompt_status(u, c, idx) = "ok"
       THEN /\ proc' = [IdleProc EXCEPT !.op = "delete_prompt", !.pc = "copy",
                                        !.user = u, !.chat = c, !.idx = idx]
            /\ UNCHANGED resp
       ELSE /\ resp' = Response("delete_prompt", delete_prompt_status(u, c, idx))
            /\ UNCHANGED proc
    /\ UNCHANGED <<store, allocated, gens, aux>>

\* messages = history.messages.copy()[:idx]
delete_prompt_copy ==
    /\ proc.op = "delete_prompt" /\ proc.pc = "copy"
    /\ proc' = [proc EXCEPT !.pc = "clear",
                            !.messages = SlicePrefix(history[proc.chat], proc.idx)]
    /\ UNCHANGED <<store, allocated, gens, resp, aux>>

\* history.clear()
delete_prompt_clear ==
    /\ proc.op = "delete_prompt" /\ proc.pc = "clear"
    /\ history' = [history EXCEPT ![proc.chat] = <<>>]
    /\ proc' = [proc EXCEPT !.pc = "replay", !.left = proc.messages]
    /\ UNCHANGED <<chatRefs, blob, chats, allocated, gens, resp, aux>>

\* for message in messages: history.append(message)
delete_prompt_append ==
    /\ proc.op = "delete_prompt" /\ proc.pc = "replay"
    /\ proc.left # <<>>
    /\ history' = [history EXCEPT ![proc.chat] = Append(@, Head(proc.left))]
    /\ proc' = [proc EXCEPT !.left = Tail(@)]
    /\ UNCHANGED <<chatRefs, blob, chats, allocated, gens, resp, aux>>

\* return True
delete_prompt_return ==
    /\ proc.op = "delete_prompt" /\ proc.pc = "replay"
    /\ proc.left = <<>>
    /\ resp' = Response("delete_prompt", "ok")
    /\ proc' = IdleProc
    /\ UNCHANGED <<store, allocated, gens, aux>>

\* delete_chat testing the membership in "chats" before the ownership.
delete_chat_status_membership_first(u, c) ==
    IF c \notin chats THEN "ChatDoesNotExist"
    ELSE IF ~Authorized(u, c) THEN "Unauthorized"
    ELSE "ok"

delete_chat_status(u, c) ==
    IF ~Authorized(u, c) THEN "Unauthorized"
    ELSE IF c \notin chats THEN "ChatDoesNotExist"
    ELSE "ok"

\* delete_chat up to and including remove_chat(db, cid).
delete_chat_begin(u, c) ==
    /\ proc = IdleProc
    /\ IF delete_chat_status(u, c) = "ok"
       THEN /\ chatRefs' = remove_chat(chatRefs, u, c)
            /\ proc' = [IdleProc EXCEPT !.op = "delete_chat", !.pc = "clear",
                                        !.user = u, !.chat = c]
            /\ UNCHANGED resp
       ELSE /\ resp' = Response("delete_chat", delete_chat_status(u, c))
            /\ UNCHANGED <<chatRefs, proc>>
    /\ UNCHANGED <<blob, chats, history, allocated, gens, aux>>

\* The next write of delete_chat: clearing the transcript, deleting the blob,
\* leaving "chats"; after the last one the handler returns.
delete_chat_step ==
    /\ proc.op = "delete_chat"
    /\ CASE proc.pc = "clear" ->
              /\ history' = [history EXCEPT ![proc.chat] = <<>>]
              /\ proc' = [proc EXCEPT !.pc = "delete"]
              /\ UNCHANGED <<blob, chats, resp>>
         [] proc.pc = "delete" ->
              /\ blob' = [blob EXCEPT ![proc.chat] = NoBlob]
              /\ proc' = [proc EXCEPT !.pc = "srem"]
              /\ UNCHANGED <<history, chats, resp>>
         [] OTHER ->
              /\ chats' = chats \ {proc.chat}
              /\ proc' = IdleProc
              /\ resp' = Response("delete_chat", "ok")
              /\ UNCHANGED <<history, blob>>
    /\ UNCHANGED <<chatRefs, allocated, gens, aux>>

\* The list comprehension builds one coroutine object per chat and drops it:
\* no body of delete_chat runs.
delete_all_chats(u) ==
    /\ proc = IdleProc
    /\ resp' = Response("delete_all_chats", "ok")
    /\ UNCHANGED <<store, allocated, gens, proc, aux>>

\* The transcript after `if len(prompt) > 0: history.append(HumanMessage(...))`.
WithQuestion(h, prompt) == IF Len(prompt) > 0 THEN Append(h, HumanMessage(prompt)) ELSE h

FreeGens == {g \in DOMAIN gens : gens[g].pc = "idle"}

\* The generator EventSourceResponse gets: created, not yet resumed.
NewGen(c, run) ==
    [pc |-> "streaming", chat |-> c, run |-> run, pos |-> 0, full_answer |-> "",
     error |-> <<>>, events |-> <<>>]

\* gens with one more generator, in the place of one that has ended if any.
StartGen(c, run) ==
    LET g == IF FreeGens # {} THEN CHOOSE x \in FreeGens : \A y \in FreeGens : x <= y
             ELSE Len(gens) + 1
    IN  [x \in 1 .. Max(Len(gens), g) |-> IF x = g THEN NewGen(c, run) ELSE gens[x]]

\* stream_ask_a_question with no except clause around the Llama constructor.
stream_ask_a_question_status_uncaught(u, c, run) ==
    IF ~Authorized(u, c) THEN "Unauthorized"
    ELSE IF TryGetChat(c) # "ok" THEN TryGetChat(c)
    ELSE IF run.ctor # "ok" THEN "Raised"
    ELSE "ok"

\* stream_ask_a_question refusing a chat that has a generation in flight.
stream_ask_a_question_status_locked(u, c, run) ==
    IF ~Authorized(u, c) THEN "Unauthorized"
    ELSE IF TryGetChat(c) # "ok" THEN TryGetChat(c)
    ELSE IF \E g \in DOMAIN gens : gens[g].pc # "idle" /\ gens[g].chat = c THEN "Conflict"
    ELSE IF run.ctor = "ValueError" THEN "error"
    ELSE IF run.ctor = "Exception" THEN "Raised"
    ELSE "ok"

stream_ask_a_question_status(u, c, run) ==
    IF ~Authorized(u, c) THEN "Unauthorized"
    ELSE IF TryGetChat(c) # "ok" THEN TryGetChat(c)
    ELSE IF run.ctor = "ValueError" THEN "error"
    ELSE IF run.ctor = "Exception" THEN "Raised"
    ELSE "ok"

\* stream_ask_a_question up to the call of Llama(...): the checks and the
\* human message.
stream_ask_a_question_begin(u, c, prompt, run) ==
    LET st == stream_ask_a_question_status(u, c, run) IN
    /\ proc = IdleProc
    /\ IF st \in Rejections
       THEN /\ resp' = Response("stream_ask_a_question", st)
            /\ UNCHANGED <<history, proc, asked>>
       ELSE /\ history' = [history EXCEPT ![c] = WithQuestion(@, prompt)]
            /\ proc' = [IdleProc EXCEPT !.op = "stream_ask_a_question", !.pc = "Llama",
                                        !.user = u, !.chat = c, !.prompt = prompt, !.run = run]
            /\ asked' = asked + 1
            /\ UNCHANGED resp
    /\ UNCHANGED <<chatRefs, blob, chats, allocated, gens, authdb, ident, listing>>

\* stream_ask_a_question from the return of Llama(...): the diagnostic and the
\* error answer on ValueError, any other exception left to the framework, or
\* else the response that iterates a new generator.
stream_ask_a_question_return ==
    LET st == stream_ask_a_question_status(proc.user, proc.chat, proc.run) IN
    /\ proc.op = "stream_ask_a_question"
    /\ resp' = Response("stream_ask_a_question", st)
    /\ history' = IF st = "error"
                  THEN [history EXCEPT ![proc.chat] = Append(@, SystemMessage(proc.run.text))]
                  ELSE history
    /\ gens' = IF st = "ok" THEN StartGen(proc.chat, proc.run) ELSE gens
    /\ proc' = IdleProc
    /\ UNCHANGED <<chatRefs, blob, chats, allocated, aux>>

Event(e, d) == [event |-> e, data |-> d]

\* The message the `finally` block of event_generator appends.
Committed(G) ==
    IF Truthy(G.error) THEN SystemMessage(G.error[1]) ELSE AIMessage(G.full_answer)

\* The `finally` block of event_generator: the commit and the close event.
Finally(g) ==
    /\ history' = [history EXCEPT ![gens[g].chat] = Append(@, Committed(gens[g]))]
    /\ gens' = [gens EXCEPT ![g].pc = "closed",
                            ![g].events = Append(@, Event("close", ""))]

\* full_answer += txt, and the same with the fragment put in front.
Accumulate_prepend(full_answer, txt) == txt \o full_answer
Accumulate(full_answer, txt) == full_answer \o txt

\* One resumption of event_generator, up to its next yield or its return.
event_generator(g) ==
    LET G == gens[g] IN
    /\ G.pc \in {"streaming", "errored", "closed"}
    /\ CASE G.pc = "streaming" /\ G.pos < Len(G.run.frags) ->
              LET txt == G.run.frags[G.pos + 1] IN
              /\ gens' = [gens EXCEPT ![g].pos = @ + 1,
                                      ![g].full_answer = Accumulate(@, txt),
                                      ![g].events = Append(@, Event("message", txt))]
              /\ UNCHANGED history
         [] G.pc = "streaming" /\ G.pos >= Len(G.run.frags) /\ G.run.end = "Exception" ->
              /\ gens' = [gens EXCEPT ![g].pc = "errored",
                                      ![g].error = <<G.run.text>>,
                                      ![g].events = Append(@, Event("error", ""))]
              /\ UNCHANGED history
         [] G.pc = "streaming" /\ G.pos >= Len(G.run.frags) /\ G.run.end # "Exception" ->
              Finally(g)
         [] G.pc = "errored" -> Finally(g)
         [] OTHER -> gens' = [gens EXCEPT ![g] = IdleGen] /\ UNCHANGED history
    /\ UNCHANGED <<chatRefs, blob, chats, allocated, resp, proc, aux>>

\* The generator is closed before it has ended (the client is gone): it gets
\* GeneratorExit at the yield it is suspended at.  `except Exception` does not
\* catch it; from a message or error yield the `finally` block runs, appends
\* its message, and its `yield` of close is refused (RuntimeError), so no
\* close event is delivered.  A generator not yet resumed runs nothing, one
\* suspended at the yield of close just ends.
event_generator_close(g) ==
    LET G == gens[g] IN
    /\ G.pc \in {"streaming", "errored", "closed"}
    /\ history' = IF (G.pc = "streaming" /\ G.pos > 0) \/ G.pc = "errored"
                  THEN [history EXCEPT ![G.chat] = Append(@, Committed(G))]
                  ELSE history
    /\ gens' = [gens EXCEPT ![g] = IdleGen]
    /\ UNCHANGED <<chatRefs, blob, chats, allocated, resp, proc, aux>>

RECURSIVE Concat(_)
Concat(fs) == IF fs = <<>> THEN "" ELSE Head(fs) \o Concat(Tail(fs))

ask_a_question_status(u, c, run) ==
    IF ~Authorized(u, c) THEN "Unauthorized"
    ELSE IF TryGetChat(c) # "ok" THEN TryGetChat(c)
    ELSE IF run.ctor # "ok" \/ run.end # "exhausted" THEN "error"
    ELSE "ok"

\* The message ask_a_question appends after the engine has run or failed: the
\* diagnostic of whatever the constructor or the call raised, or else the
\* answer.
ask_a_question_message(run) ==
    IF run.ctor # "ok" \/ run.end # "exhausted" THEN SystemMessage(run.text)
    ELSE AIMessage(Concat(run.frags))

\* ask_a_question up to the call of Llama(...): the checks and the human
\* message.
ask_a_question_begin(u, c, prompt, run) ==
    LET st == ask_a_question_status(u, c, run) IN
    /\ proc = IdleProc
    /\ IF st \in Rejections
       THEN /\ resp' = Response("ask_a_question", st)
            /\ UNCHANGED <<history, proc, asked>>
       ELSE /\ history' = [history EXCEPT ![c] = WithQuestion(@, prompt)]
            /\ proc' = [IdleProc EXCEPT !.op = "ask_a_question", !.pc = "Llama",
                                        !.user = u, !.chat = c, !.prompt = prompt, !.run = run]
            /\ asked' = asked + 1
            /\ UNCHANGED resp
    /\ UNCHANGED <<chatRefs, blob, chats, allocated, gens, authdb, ident, listing>>

\* ask_a_question from the end of the constructor and of the inference: the
\* answer or the diagnostic.
ask_a_question_return ==
    /\ proc.op = "ask_a_question"
    /\ resp' = Response("ask_a_question",
                        ask_a_question_status(proc.user, proc.chat, proc.run))
    /\ history' = [history EXCEPT ![proc.chat] = Append(@, ask_a_question_message(proc.run))]
    /\ proc' = IdleProc
    /\ UNCHANGED <<chatRefs, blob, chats, allocated, gens, aux>>

\* ------------------------------------------------------------ the requests
\* The requests that are sent: a chat is created while Chat() has an id left,
\* a question goes to a transcript shorter than MaxHist and is one of the
\* first `asks`, and a stream is
\* asked for while one of the generators S has not started or has ended.

CanStart(S) == \E g \in S : IF g > Len(gens) THEN TRUE ELSE gens[g].pc = "idle"

Accepted(u, c) == Authorized(u, c) /\ TryGetChat(c) = "ok"

Requests(S, prompts, runs, idxs, asks) ==
    \/ \E u \in Users, m \in Models, p \in InitPrompts :
          /\ m \in Weights => allocated < Len(NewChatIds)
          /\ create_new_chat_begin(u, m, p, NextId)
    \/ \E u \in Users : get_all_chats(u)
    \/ \E u \in Users, c \in ChatIds : get_specific_chat(u, c)
    \/ \E u \in Users, c \in ChatIds : get_chat_history(u, c)
    \/ \E u \in Users, c \in ChatIds, idx \in idxs : delete_prompt_begin(u, c, idx)
    \/ \E u \in Users, c \in ChatIds : delete_chat_begin(u, c)
    \/ \E u \in Users : delete_all_chats(u)
    \/ \E u \in Users, c \in ChatIds, p \in prompts, r \in runs :
          /\ Accepted(u, c) => Len(history[c]) < MaxHist /\ asked < asks /\ CanStart(S)
          /\ stream_ask_a_question_begin(u, c, p, r)
    \/ \E u \in Users, c \in ChatIds, p \in prompts, r \in runs :
          /\ Accepted(u, c) => Len(history[c]) < MaxHist /\ asked < asks
          /\ ask_a_question_begin(u, c, p, r)

\* The handler the event loop is in goes on to its next blocking call.
Continue ==
    \/ create_new_chat_step
    \/ delete_prompt_copy
    \/ delete_prompt_clear
    \/ delete_prompt_append
    \/ delete_prompt_return
    \/ delete_chat_step
    \/ stream_ask_a_question_return
    \/ ask_a_question_return

\* A worker thread resumes a generator, or the generator is closed.
Iterate ==
    \/ \E g \in DOMAIN gens : event_generator(g)
    \/ \E g \in DOMAIN gens : event_generator_close(g)

Next == Requests(Gens, Prompts, EngineRuns, IdxRange, MaxAsks) \/ Continue \/ Iterate

Spec == Init /\ [][Next]_vars

\* ---------------------------------------------------------------- a crash
\* The process dies: the handler the loop is in and the generators end where
\* they are, and what is written to the stores stays written (SpecSteps).
Crash ==
    /\ proc # IdleProc \/ \E g \in DOMAIN gens : gens[g].pc # "idle"
    /\ proc' = IdleProc
    /\ gens' = [g \in DOMAIN gens |-> IdleGen]
    /\ resp' = Response(proc.op, "Crashed")
    /\ UNCHANGED <<store, allocated, aux>>

NextSteps == Next \/ Crash

SpecSteps == Init /\ [][NextSteps]_vars

\* ------------------------------------------------ two requests in flight
\* Each stream request gets a generator of its own, and nothing ties a chat to
\* one generator: with two of them (SpecTwoGens) two generations run on the
\* same chat.

TwoGens    == {1, 2}
TwoPrompts == {"hi", "ho"}
TwoRuns    == {r \in EngineRuns : r.ctor = "ok" /\ r.end = "exhausted"}

NextTwoGens == Requests(TwoGens, TwoPrompts, TwoRuns, {0, 1}, Cardinality(TwoGens)) \/ Continue \/ Iterate

SpecTwoGens == Init /\ [][NextTwoGens]_vars

\* ------------------------------------------------------------ auth router
\* authenticate_user, login_for_access_token, get_current_user and
\* get_current_active_user are functions of the user table and of the request
\* (SpecAuth): the user table is drawn at the start, the requests at each step.

MaxAuths == 2          \* credentials a user holds at most

Passwords   == {"pw", "other"}
Usernames   == Users \cup {"ghost"}       \* get_user finds no user "ghost"
Credentials == {Credential(0, ""), Credential(2, "")}
               \cup {Credential(1, Hash(p)) : p \in Passwords}
AuthLists   == UNION {[1 .. n -> Credentials] : n \in 0 .. MaxAuths}
Tokens      == [kind : {"absent", "malformed", "expired", "bad_signature", "no_sub"}, sub : {""}]
               \cup [kind : {"valid"}, sub : Usernames]

\* serge.utils.security: the hash comparison, and the token that carries the
\* username; decoding raises JWTError unless signature and expiry verify, and
\* gives None when the payload has no "sub".
verify_password(password, secret) == Hash(password) = secret
create_access_token(username) == [kind |-> "valid", sub |-> username]
decode_access_token(token) ==
    IF token.kind \in {"malformed", "expired", "bad_signature"} THEN Raised("JWTError")
    ELSE IF token.kind = "no_sub" THEN Returned("None")
    ELSE Returned(token.sub)

\* serge.crud.get_user: the user of that name, None when there is none.
get_user(username) == IF username \in DOMAIN authdb THEN username ELSE "None"

\* [a.auth_type for a in user.auth]
AuthTypes(username) == {authdb[username][i].auth_type : i \in DOMAIN authdb[username]}

\* [x for x in user.auth if x.auth_type == 1][0].secret
FirstSecret(username) ==
    LET auth == authdb[username]
        i == CHOOSE k \in DOMAIN auth :
                 /\ auth[k].auth_type = 1
                 /\ \A j \in 1 .. (k - 1) : auth[j].auth_type # 1
    IN  auth[i].secret

\* The value authenticate_user returns: the user, None or False.
authenticate_user(username, password) ==
    IF get_user(username) = "None" THEN "None"
    ELSE IF 0 \in AuthTypes(username) THEN username
    ELSE IF 1 \in AuthTypes(username) /\ verify_password(password, FirstSecret(username))
    THEN username
    ELSE "False"

login_for_access_token(username, password) ==
    LET user == authenticate_user(username, password) IN
    /\ ident' = [fn |-> "login_for_access_token", username |-> username,
                 password |-> password, token |-> NoToken, user |-> user,
                 outcome |-> IF user \in {"None", "False"} THEN Raised("HTTPException")
                             ELSE Returned(create_access_token(user))]
    /\ UNCHANGED <<chatVars, authdb, listing>>

\* get_current_user with the user looked up and returned unchecked.
get_current_user_unchecked(token) ==
    LET d == decode_access_token(token) IN
    IF d.exc = "JWTError" \/ d.value = "None" THEN Raised("HTTPException")
    ELSE Returned(get_user(d.value))

get_current_user(token) ==
    LET d == decode_access_token(token) IN
    IF d.exc = "JWTError" \/ d.value = "None" THEN Raised("HTTPException")
    ELSE IF get_user(d.value) = "None" THEN Raised("HTTPException")
    ELSE Returned(get_user(d.value))

\* The outcome of get_current_active_user: only HTTPException is caught.
get_current_active_user_outcome(token) ==
    IF token.kind = "absent" THEN Returned(get_user("system"))
    ELSE IF get_current_user(token).exc = "HTTPException" THEN Returned(get_user("system"))
    ELSE get_current_user(token)

get_current_active_user(token) ==
    /\ ident' = [fn |-> "get_current_active_user", username |-> "", password |-> "",
                 token |-> token, user |-> "",
                 outcome |-> get_current_active_user_outcome(token)]
    /\ UNCHANGED <<chatVars, authdb, listing>>

InitAuth ==
    /\ ChatInit
    /\ authdb \in [Users -> AuthLists]
    /\ authdb["system"] = <<Credential(0, "")>>
    /\ ident = NoIdent
    /\ listing = NoListing

NextAuth ==
    \/ \E n \in Usernames, p \in Passwords : login_for_access_token(n, p)
    \/ \E t \in Tokens : get_current_active_user(t)

SpecAuth == InitAuth /\ [][NextAuth]_vars

\* ------------------------------------------------------------ the listing
\* What get_all_chats returns is a function of the chats get_specific_chat
\* read for it, in the order of u.chats (SpecList): they are drawn at the
\* start, and the request sorts and summarises them.

MaxChats == 2          \* chats a user lists at most

ListIds    == {"c1", "c2", "c3"}
Createds   == {1, 2}
Transcripts == {<<>>, <<SystemMessage("X")>>, <<SystemMessage("X"), HumanMessage("hi")>>}
ChatDicts  == [id : ListIds, created : Createds, model_path : {"7B"}, history : Transcripts]
ChatLists  == {l \in UNION {[1 .. n -> ChatDicts] : n \in 0 .. MaxChats} :
                  \A i, j \in DOMAIN l : i # j => l[i].id # l[j].id}

\* One step of the sort the other way round: ascending.
InsertAscending(srt, x) ==
    LET k == Cardinality({i \in DOMAIN srt : srt[i].created <= x.created}) IN
    SubSeq(srt, 1, k) \o <<x>> \o SubSeq(srt, k + 1, Len(srt))

\* One step of sorted(..., key=created, reverse=True): the next chat goes
\* behind the chats created at the same time or later (the sort is stable).
InsertDescending(srt, x) ==
    LET k == Cardinality({i \in DOMAIN srt : srt[i].created >= x.created}) IN
    SubSeq(srt, 1, k) \o <<x>> \o SubSeq(srt, k + 1, Len(srt))

RECURSIVE SortedByCreated(_)
SortedByCreated(l) ==
    IF l = <<>> THEN <<>>
    ELSE InsertDescending(SortedByCreated(SubSeq(l, 1, Len(l) - 1)), l[Len(l)])

\* chat["history"][-1]["data"]["content"], "" on IndexError.
Subtitle(chat) ==
    IF chat.history = <<>> THEN "" ELSE chat.history[Len(chat.history)].content

Summary(chat) ==
    [id |-> chat.id, created |-> chat.created, model |-> chat.model_path,
     subtitle |-> Subtitle(chat)]

get_all_chats_result(l) ==
    LET srt == SortedByCreated(l) IN [i \in DOMAIN srt |-> Summary(srt[i])]

get_all_chats_return ==
    /\ ~listing.called
    /\ listing' = [listing EXCEPT !.called = TRUE,
                                  !.result = get_all_chats_result(listing.chats)]
    /\ UNCHANGED <<chatVars, authdb, ident>>

\* The next request lists the same chats.
get_all_chats_again ==
    /\ listing.called
    /\ listing' = [listing EXCEPT !.called = FALSE, !.result = <<>>]
    /\ UNCHANGED <<chatVars, authdb, ident>>

InitList ==
    /\ ChatInit
    /\ authdb = DefaultAuthDb
    /\ ident = NoIdent
    /\ listing \in [chats : ChatLists, called : {FALSE}, result : {<<>>}]

NextList == get_all_chats_return \/ get_all_chats_again

SpecList == InitList /\ [][NextList]_vars

\* ------------------------------------------------------------------ claims

\* The terminal events among the events a generator has emitted.
Terminals(ev) == {i \in 1 .. Len(ev) : ev[i].event \in {"close", "error"}}

\* C1: a generator that has emitted its last event has emitted exactly one
\* terminal event, as its last event: "error" when the engine raised (other
\* than the absorbed UnicodeDecodeError), "close" otherwise.
C1_OneTerminalEvent ==
    \A g \in DOMAIN gens :
        gens[g].pc = "closed" =>
            LET ev == gens[g].events IN
            /\ Cardinality(Terminals(ev)) = 1
            /\ Terminals(ev) = {Len(ev)}
            /\ ev[Len(ev)].event = IF gens[g].error # <<>> THEN "error" ELSE "close"

\* C2: a streaming generation appends the human message exactly when the
\* prompt is non-empty, then appends one message when it ends: the assistant
\* message on success, a system message carrying the error text on failure;
\* no other step of the generation touches the transcript.
C2_TranscriptGain ==
    [][/\ \A u \in Users, c \in ChatIds, p \in Prompts, r \in EngineRuns :
            (stream_ask_a_question_begin(u, c, p, r) /\ proc'.op = "stream_ask_a_question") =>
                history' = [history EXCEPT ![c] =
                               IF p = "" THEN @ ELSE Append(@, HumanMessage(p))]
       /\ \A g \in DOMAIN gens :
            LET G == gens[g]
                H == gens'[g]
            IN  /\ (G.pc \in {"streaming", "errored"} /\ H.pc = "closed") =>
                       history' = [history EXCEPT ![G.chat] =
                                      Append(@, IF H.error = <<>> THEN AIMessage(H.full_answer)
                                                ELSE SystemMessage(H.error[1]))]
                /\ (G.pc = "streaming" /\ H.pc \in {"streaming", "errored"} /\ G # H) =>
                       history' = history
      ]_vars

\* C3: a delete_chat that succeeded succeeds again when repeated at once, and
\* leaves no transcript, no blob and no membership in "chats".
C3_DeleteIdempotent ==
    [][\A u \in Users, c \in ChatIds :
        (/\ proc.user = u /\ proc.chat = c
         /\ delete_chat_step /\ proc' = IdleProc) =>
            /\ (delete_chat_status(u, c))' = "ok"
            /\ history'[c] = <<>> /\ blob'[c] = NoBlob /\ c \notin chats'
      ]_vars

\* C4: whenever no handler is in progress, the transcript of every existing
\* chat starts with the system message holding the init_prompt of the session.
C4_StartsWithInitPrompt ==
    \A c \in chats :
        (proc = IdleProc /\ blob[c] # NoBlob) =>
            /\ history[c] # <<>>
            /\ history[c][1] = SystemMessage(blob[c].init_prompt)

\* C5: after delete_all_chats(u) no chat of u's list is left: no ChatRef, no
\* blob, no membership in "chats", an empty transcript.
C5_DeleteAllDeletes ==
    [][\A u \in Users :
        delete_all_chats(u) =>
            \A c \in ChatIdsOf(u) :
                /\ c \notin (ChatIdsOf(u))'
                /\ blob'[c] = NoBlob
                /\ c \notin chats'
                /\ history'[c] = <<>>
      ]_vars

\* C6: when a delete_prompt(idx) returns and no generator has ever been
\* started (no concurrent writer), readAll returns the first idx messages
\* of the transcript the call read (none for idx <= 0).
C6_TruncateKeepsFirstIdx ==
    [][\A c \in ChatIds, idx \in IdxRange :
        (gens = <<>> /\ proc.chat = c /\ proc.idx = idx /\ delete_prompt_return) =>
            /\ Len(ReadAll(c)') = Max(idx, 0)
            /\ \A i \in 1 .. Max(idx, 0) : ReadAll(c)'[i] = proc.messages[i]
      ]_vars

\* C7: delete_prompt is refused, with Conflict, exactly when idx is not a
\* position of the transcript read at the call, and then leaves the
\* transcript as it was.
C7_ConflictIffOutOfRange ==
    [][\A u \in Users, c \in ChatIds, idx \in IdxRange :
        (Authorized(u, c) /\ delete_prompt_begin(u, c, idx)) =>
            /\ proc' = IdleProc <=> (idx < 0 \/ idx >= Len(history[c]))
            /\ proc' = IdleProc => resp'.status = "Conflict" /\ history' = history
      ]_vars

\* A handler that takes a chat_id, started by u on c.
ChatOp(u, c) ==
    \/ get_specific_chat(u, c)
    \/ get_chat_history(u, c)
    \/ \E idx \in IdxRange : delete_prompt_begin(u, c, idx)
    \/ delete_chat_begin(u, c)
    \/ \E p \in Prompts, r \in EngineRuns : stream_ask_a_question_begin(u, c, p, r)
    \/ \E p \in Prompts, r \in EngineRuns : ask_a_question_begin(u, c, p, r)

\* C8: a handler that takes a chat_id, run on a chat that is not among the
\* user's ChatRefs, answers Unauthorized at once, whether or not the chat
\* exists, and leaves the ChatRefs, the blobs, "chats", the transcripts and
\* the generators as they were: no such handler has a step that does otherwise.
C8_AuthorizationGate ==
    \A u \in Users, c \in ChatIds :
        ~Authorized(u, c) =>
            ~ENABLED (/\ ChatOp(u, c)
                      /\ ~(/\ resp'.status = "Unauthorized"
                           /\ proc' = IdleProc
                           /\ UNCHANGED <<store, allocated, gens>>))

\* C8 witness: a delete_chat was refused as Unauthorized while a chat with a
\* transcript exists, a generation is in flight, and some user owns nothing.
C8_Witness ==
    /\ resp = Response("delete_chat", "Unauthorized")
    /\ \E c \in chats : history[c] # <<>> /\ blob[c] # NoBlob
    /\ \E u \in Users : chatRefs[u] = <<>>
    /\ \E g \in DOMAIN gens : gens[g].pc = "streaming"

\* C9: a chat without a session (no blob, not in "chats") has no transcript.
C9_NoTranscriptWithoutSession ==
    \A c \in ChatIds :
        (c \notin chats /\ blob[c] = NoBlob) => history[c] = <<>>

\* C10: every ChatRef listed for a user can be read: the chat is in "chats"
\* and has a blob, between any two writes and after a crash.
C10_NoDanglingChatRef ==
    \A u \in Users : \A c \in ChatIdsOf(u) : get_specific_chat_status(u, c) = "ok"

\* A credential that matches the submitted password.
Matches(cred, password) ==
    \/ cred.auth_type = 0
    \/ cred.auth_type = 1 /\ verify_password(password, cred.secret)

\* C11: a login is granted exactly when the user is known and one of the
\* user's credentials matches: a passwordless one whatever the password, a
\* password one whose hash the password verifies against, never a reserved one.
C11_GrantedIffACredentialMatches ==
    ident.fn = "login_for_access_token" =>
        (ident.outcome.exc = ""
            <=> /\ ident.username \in DOMAIN authdb
                /\ \E i \in DOMAIN authdb[ident.username] :
                       Matches(authdb[ident.username][i], ident.password))

\* C12: get_current_active_user raises nothing; it returns the user of a
\* valid token whose username is known, and the user "system" for every
\* other token, the absent one included.
C12_IdentityNeverFails ==
    ident.fn = "get_current_active_user" =>
        /\ ident.outcome.exc = ""
        /\ ident.outcome.value =
              IF ident.token.kind = "valid" /\ ident.token.sub \in DOMAIN authdb
              THEN ident.token.sub ELSE "system"

\* C12 witness: a token of a user that does not exist was resolved to "system".
C12_Witness ==
    /\ ident.fn = "get_current_active_user"
    /\ ident.token = [kind |-> "valid", sub |-> "ghost"]
    /\ ident.outcome = Returned("system")

\* The handler in progress is a generation request, streaming or blocking.
GenOps == {"stream_ask_a_question", "ask_a_question"}

\* A generation request, streaming or blocking, up to the call of Llama(...).
GenBegin(u, c, p, r) ==
    stream_ask_a_question_begin(u, c, p, r) \/ ask_a_question_begin(u, c, p, r)

\* A generation request from the return of Llama(...).
GenReturn == stream_ask_a_question_return \/ ask_a_question_return

\* The chat is the caller's and exists, and its model file is missing.
ModelUnavailable(u, c, r) == Accepted(u, c) /\ r.ctor = "ValueError"

\* The request in progress appends exactly the diagnostic and reports an error.
Diagnosed ==
    /\ resp'.status = "error"
    /\ history' = [history EXCEPT ![proc.chat] = Append(@, SystemMessage(proc.run.text))]

\* C13 as stated: a generation request on a chat whose model is missing
\* reports an error, and the transcript gains exactly one message, a
\* system-role diagnostic: the request writes nothing before the constructor
\* fails, and then appends the diagnostic.
C13_ModelUnavailableGainsOne ==
    /\ \A u \in Users, c \in ChatIds, p \in Prompts, r \in EngineRuns :
           ModelUnavailable(u, c, r) =>
               ~ENABLED (GenBegin(u, c, p, r) /\ history' # history)
    /\ (proc.op \in GenOps /\ proc.run.ctor = "ValueError") =>
           ~ENABLED (GenReturn /\ ~Diagnosed)

\* C13 amended: a generation request on a chat whose model is missing first
\* appends the human message when the prompt is not empty, and when the
\* constructor has failed it reports an error, starts no generation, and
\* appends exactly one more message, a system-role diagnostic.
C13_ModelUnavailableDiagnostic ==
    /\ \A u \in Users, c \in ChatIds, p \in Prompts, r \in EngineRuns :
           ModelUnavailable(u, c, r) =>
               ~ENABLED (/\ GenBegin(u, c, p, r)
                         /\ ~(/\ history' = [history EXCEPT ![c] =
                                                IF p = "" THEN @ ELSE Append(@, HumanMessage(p))]
                              /\ proc'.op \in GenOps
                              /\ gens' = gens))
    /\ (proc.op \in GenOps /\ proc.run.ctor = "ValueError") =>
           ~ENABLED (GenReturn /\ ~(Diagnosed /\ gens' = gens /\ proc' = IdleProc))

\* C13 witness: the streaming request reported the missing model, after the
\* question it had already appended.
C13_Witness ==
    /\ resp = Response("stream_ask_a_question", "error")
    /\ Len(history["c1"]) >= 2
    /\ history["c1"][Len(history["c1"])] = SystemMessage("boom")
    /\ history["c1"][Len(history["c1"]) - 1] = HumanMessage("hi")

\* The message events for the first n fragments of a run, in production order.
Delivered(run, n) == [i \in 1 .. n |-> Event("message", run.frags[i])]

\* C14: in a streaming generation whose engine run completes, the events
\* delivered so far are the fragments produced so far, one message event each
\* and in production order, followed by close once the generator has closed;
\* the resumption that delivers close is the one that commits, it is taken
\* only when every fragment has been delivered, and it appends to the
\* transcript one assistant message, the concatenation of the fragments in
\* that order.
C14_FragmentsInOrder ==
    \A g \in DOMAIN gens :
        LET G == gens[g] IN
        (G.pc # "idle" /\ G.run.end = "exhausted") =>
            /\ G.pos <= Len(G.run.frags)
            /\ G.full_answer = Concat(SubSeq(G.run.frags, 1, G.pos))
            /\ G.events = IF G.pc = "closed"
                          THEN Append(Delivered(G.run, Len(G.run.frags)), Event("close", ""))
                          ELSE Delivered(G.run, G.pos)
            /\ ~ENABLED (/\ event_generator(g)
                         /\ \/ history' # history
                            \/ gens'[g].events # <<>> /\ gens'[g].events[Len(gens'[g].events)].event = "close"
                                  /\ G.pc = "streaming"
                         /\ ~(/\ G.pos = Len(G.run.frags)
                              /\ gens'[g].events = Append(G.events, Event("close", ""))
                              /\ history' = [history EXCEPT ![G.chat] =
                                                Append(@, AIMessage(Concat(G.run.frags)))]))

\* C14 witness: both fragments were delivered, then close, and the transcript
\* ends with their concatenation.
C14_Witness ==
    \E g \in DOMAIN gens :
        /\ gens[g].pc = "closed"
        /\ gens[g].run.end = "exhausted"
        /\ gens[g].events = <<Event("message", "a"), Event("message", "b"), Event("close", "")>>
        /\ history[gens[g].chat] # <<>>
        /\ history[gens[g].chat][Len(history[gens[g].chat])] = AIMessage("ab")

\* C15: the blocking ask leaves the transcript the streaming ask leaves, for
\* the same transcript, prompt and engine behaviour: both append the same
\* question; when the engine cannot be constructed the streaming handler
\* appends what the blocking handler appends, and otherwise the generator
\* commits the message the blocking handler appends.
C15_BlockingSameAsStreaming ==
    /\ (proc.op = "stream_ask_a_question" /\ proc.run.ctor # "ok") =>
           ~ENABLED (/\ stream_ask_a_question_return
                     /\ history' # [history EXCEPT ![proc.chat] =
                                       Append(@, ask_a_question_message(proc.run))])
    /\ \A g \in DOMAIN gens :
           ~ENABLED (/\ event_generator(g)
                     /\ history' # history
                     /\ history' # [history EXCEPT ![gens[g].chat] =
                                       Append(@, ask_a_question_message(gens[g].run))])

\* C16: a UnicodeDecodeError raised during generation is absorbed.  Streaming:
\* no error event is delivered, and the generator closes by committing an
\* assistant message and delivering close.  Blocking: the request succeeds
\* and appends an assistant message, not a diagnostic.
C16_DecodeArtifactAbsorbed ==
    /\ \A g \in DOMAIN gens :
           LET G == gens[g] IN
           (G.pc # "idle" /\ G.run.end = "UnicodeDecodeError") =>
               /\ \A i \in DOMAIN G.events : G.events[i].event # "error"
               /\ G.pc # "errored"
               /\ ~ENABLED (/\ event_generator(g)
                            /\ history' # history
                            /\ ~(/\ history'[G.chat] = Append(history[G.chat], AIMessage(G.full_answer))
                                 /\ gens'[g].events = Append(G.events, Event("close", ""))))
    /\ (/\ proc.op = "ask_a_question"
        /\ proc.run.ctor = "ok"
        /\ proc.run.end = "UnicodeDecodeError") =>
           ~ENABLED (/\ ask_a_question_return
                     /\ ~(/\ resp'.status = "ok"
                          /\ history'[proc.chat][Len(history'[proc.chat])].type = "ai"))

\* C17: the listing has one summary per chat read, with the chat's id,
\* created and model and with the content of its last message as subtitle
\* ("" for an empty transcript), and the summaries come newest first.
C17_ListingNewestFirst ==
    listing.called =>
        /\ Len(listing.result) = Len(listing.chats)
        /\ \A i \in DOMAIN listing.chats :
               LET chat == listing.chats[i]
                   js == {j \in DOMAIN listing.result : listing.result[j].id = chat.id}
               IN  /\ Cardinality(js) = 1
                   /\ \A j \in js :
                          /\ listing.result[j].created = chat.created
                          /\ listing.result[j].model = chat.model_path
                          /\ listing.result[j].subtitle =
                                IF Len(chat.history) = 0 THEN ""
                                ELSE chat.history[Len(chat.history)].content
        /\ \A i, j \in DOMAIN listing.result :
               i < j => listing.result[i].created >= listing.result[j].created

\* C17 witness: the chat created at 1 is listed before the chat created at 2
\* in u.chats, and comes back after it; its transcript is empty.
C17_Witness ==
    /\ listing.called
    /\ Len(listing.chats) = 2
    /\ listing.chats[1].created = 1 /\ listing.chats[2].created = 2
    /\ listing.chats[1].history = <<>>
    /\ listing.result[1].id = listing.chats[2].id
    /\ listing.result[2].id = listing.chats[1].id
    /\ listing.result[2].subtitle = ""
    /\ listing.result[1].subtitle = "hi"

\* C18: a truncation that is not rejected leaves, when it returns, a
\* transcript that starts with the messages it kept, in their order: no
\* message of a generation on the same chat stands in front of a replayed
\* message, and no kept message is missing.
C18_TruncationKeepsOrder ==
    (proc.op = "delete_prompt" /\ proc.pc = "replay" /\ proc.left = <<>>) =>
        /\ Len(history[proc.chat]) >= Len(proc.messages)
        /\ SubSeq(history[proc.chat], 1, Len(proc.messages)) = proc.messages

\* C19: a generation in flight on a chat excludes nothing.  While a generator
\* is streaming on a chat, it can take its next step whatever the others do,
\* a further stream request on that chat is taken up and appends its
\* question, and such a request, once its engine is constructed, is answered
\* with a second generator streaming on the same chat beside the first.
C19_NoMutualExclusion ==
    \A g \in DOMAIN gens :
        LET G == gens[g] IN
        G.pc = "streaming" =>
            /\ ENABLED event_generator(g)
            /\ \A u \in Users, p \in TwoPrompts, r \in TwoRuns :
                   (proc = IdleProc /\ Accepted(u, G.chat)) =>
                       ENABLED (/\ stream_ask_a_question_begin(u, G.chat, p, r)
                                /\ proc'.op = "stream_ask_a_question"
                                /\ history'[G.chat] = Append(history[G.chat], HumanMessage(p)))
            /\ (/\ proc.op = "stream_ask_a_question"
                /\ proc.chat = G.chat
                /\ proc.run.ctor = "ok") =>
                   ENABLED (/\ stream_ask_a_question_return
                            /\ resp'.status = "ok"
                            /\ gens'[g] = G
                            /\ \E f \in DOMAIN gens' :
                                   /\ f # g
                                   /\ gens'[f] = NewGen(G.chat, proc.run))

\* C19 witness: two generations were in flight on the same chat, and its
\* transcript is both questions followed by both answers.
C19_Witness ==
    /\ Len(gens) = 2
    /\ \A g \in DOMAIN gens : gens[g].pc = "closed" /\ gens[g].chat = "c1"
    /\ Len(history["c1"]) = 4
    /\ history["c1"][1] = HumanMessage("hi")
    /\ history["c1"][2] = HumanMessage("ho")
    /\ history["c1"][3].type = "ai"
    /\ history["c1"][4] = AIMessage("ab")

\* C20: after every single store write of create_new_chat and delete_chat,
\* each member of the set "chats" has a session blob under its key, so a
\* reader that passes the membership test of _try_get_chat finds a blob.
C20_MemberHasBlob ==
    \A c \in chats : blob[c] # NoBlob
====
